---- MODULE Spec2Model ----
(***************************************************************************)
(* Model of the AlbumCrate component (carousel navigation, preview         *)
(* playback, drag gesture, genre filter, album loading) and of the album   *)
(* request built by fetchRandomAlbums.                                     *)
(*                                                                         *)
(* Every handler of the component runs to completion on the single UI      *)
(* thread, so one handler is one action.  The suspension points are the    *)
(* two fetches (pendingLoads, genresPending) and the setTimeout callbacks  *)
(* scheduled by goToNext/goToPrev (timers).                                *)
(***************************************************************************)
EXTENDS Integers, Sequences, FiniteSets, TLC

\* ------------------------------------------------------------------ bounds
MaxAlbumId == 2      \* album ids 1..MaxAlbumId may appear in a response
MaxTimers  == 2      \* deferred playPreview callbacks pending at once
MaxLoads   == 2      \* album fetches issued in one behaviour
Duration   == 1      \* length of a preview clip, in playback ticks

\* ------------------------------------------------------- program constants
Threshold     == 80  \* handleDragEnd: const threshold = 80
AlbumCount    == 10  \* loadAlbums: fetchRandomAlbums(10, ...)
AlbumMinTrack == 2   \* loadAlbums: showOnlyAlbums ? 2 : undefined
VolumePct     == 50  \* playPreview: audioRef.value.volume = 0.5
DefaultVolPct == 100 \* volume of a fresh audio element

NoError  == "null"
ErrorMsg == "Failed to load albums. Make sure the backend is running."
NoSrc    == 0
NoAlbum  == 0

\* the genre list the backend serves (ids as in the tests)
AllGenres == <<129, 152>>

\* pointer positions (clientX) delivered to handleDragStart and to
\* handleDragMove: the moves end one unit inside and one unit beyond the
\* threshold on either side of the start
StartXs == {Threshold + 1}
MoveXs  == {0, 1, 2 * Threshold + 1, 2 * Threshold + 2}

Keys == {"ArrowRight", "ArrowLeft", " ", "Enter"}

VARIABLES
    mounted,         \* onMounted has run (keydown listener installed)
    albums,          \* albums.value, a sequence of album ids
    currentIndex,    \* currentIndex.value, 0-based
    isLoading,
    error,
    audioRef,        \* TRUE when audioRef.value is the <audio> element
    audio,           \* the element: src, paused, currentTime, volume
    isPlaying,
    isDragging,
    dragStartX,
    dragOffset,
    hasInteracted,
    genres,
    selectedGenres,  \* an array: order of selection is kept
    showGenreFilter,
    showOnlyAlbums,
    pendingLoads,    \* album fetches in flight, each with its arguments
    genresPending,   \* the genre fetch is in flight
    timers,          \* number of pending setTimeout(playPreview, 150)
    fetchCount,      \* calls of fetchRandomAlbums so far
    triggerCount     \* load triggers so far (mount and user actions)

vars == <<mounted, albums, currentIndex, isLoading, error, audioRef, audio,
          isPlaying, isDragging, dragStartX, dragOffset, hasInteracted,
          genres, selectedGenres, showGenreFilter, showOnlyAlbums,
          pendingLoads, genresPending, timers, fetchCount, triggerCount>>

\* ------------------------------------------------------------ environment
\* Album.preview_url: each album has its own clip
PreviewUrl(a) == 100 + a

Range(lo, hi) == [i \in 1..(hi - lo + 1) |-> lo + i - 1]

\* the album lists a successful fetch may deliver (AlbumCollection.albums)
Responses ==
    {<<>>} \cup {Range(b[1], b[2]) : b \in {c \in (1..MaxAlbumId) \X (1..MaxAlbumId) : c[1] <= c[2]}}

RemoveAt(s, i) == [j \in 1..(Len(s) - 1) |-> IF j < i THEN s[j] ELSE s[j + 1]]

IndexOf(s, x) == IF \E i \in DOMAIN s : s[i] = x
                 THEN (CHOOSE i \in DOMAIN s : s[i] = x /\ \A j \in 1..(i - 1) : s[j] # x) - 1
                 ELSE -1

\* -------------------------------------------------------- computed values
currentAlbum(alb, idx) == IF idx + 1 \in DOMAIN alb THEN alb[idx + 1] ELSE NoAlbum

\* the v-if / v-else-if chain of the template
View == IF isLoading THEN "loading"
        ELSE IF error # NoError THEN "error"
        ELSE IF Len(albums) > 0 THEN "crate"
        ELSE "blank"

\* ------------------------------------------------------ playback functions
\* The playback part of the state, threaded through nested calls.
Player == [ref |-> audioRef, audio |-> audio, isPlaying |-> isPlaying, hasInteracted |-> hasInteracted]

SetPlayer(p) == /\ audio' = p.audio
                /\ isPlaying' = p.isPlaying
                /\ hasInteracted' = p.hasInteracted

\* playPreview that reports Playing only when the element accepts play()
playPreview_OnlyIfAccepted(p, alb, idx, accepted) ==
    IF currentAlbum(alb, idx) = NoAlbum \/ ~p.ref THEN p
    ELSE [ref |-> p.ref,
          audio |-> [src |-> PreviewUrl(currentAlbum(alb, idx)),
                     paused |-> ~accepted,
                     currentTime |-> 0,
                     volume |-> VolumePct],
          isPlaying |-> accepted,
          hasInteracted |-> TRUE]

\* playPreview that records the interaction before its guard
playPreview_InteractedFirst(p, alb, idx, accepted) ==
    IF currentAlbum(alb, idx) = NoAlbum \/ ~p.ref THEN [p EXCEPT !.hasInteracted = TRUE]
    ELSE [ref |-> p.ref,
          audio |-> [src |-> PreviewUrl(currentAlbum(alb, idx)),
                     paused |-> ~accepted,
                     currentTime |-> 0,
                     volume |-> VolumePct],
          isPlaying |-> TRUE,
          hasInteracted |-> TRUE]

\* accepted: whether the element's play() promise resolves or rejects
playPreview(p, alb, idx, accepted) ==
    IF currentAlbum(alb, idx) = NoAlbum \/ ~p.ref THEN p
    ELSE [ref |-> p.ref,
          audio |-> [src |-> PreviewUrl(currentAlbum(alb, idx)),
                     paused |-> ~accepted,
                     currentTime |-> 0,
                     volume |-> VolumePct],
          isPlaying |-> TRUE,
          hasInteracted |-> TRUE]

\* stopPreview that pauses without rewinding
stopPreview_NoRewind(p) ==
    IF ~p.ref THEN p
    ELSE [p EXCEPT !.audio.paused = TRUE, !.isPlaying = FALSE]

stopPreview(p) ==
    IF ~p.ref THEN p
    ELSE [p EXCEPT !.audio.paused = TRUE, !.audio.currentTime = 0, !.isPlaying = FALSE]

\* ---------------------------------------------------------------- navigation
\* The part of the state goToNext/goToPrev work on.
NavState == [p |-> Player, idx |-> currentIndex, timers |-> timers]

SetNav(n) == /\ SetPlayer(n.p)
             /\ currentIndex' = n.idx
             /\ timers' = n.timers

\* goToNext with the bound test off by one
goToNext_OffByOne(n) ==
    IF n.idx < Len(albums)
    THEN LET p1 == stopPreview(n.p)
         IN [p |-> p1, idx |-> n.idx + 1,
             timers |-> IF p1.hasInteracted THEN n.timers + 1 ELSE n.timers]
    ELSE n

goToNext(n) ==
    IF n.idx < Len(albums) - 1
    THEN LET p1 == stopPreview(n.p)
         IN [p |-> p1, idx |-> n.idx + 1,
             timers |-> IF p1.hasInteracted THEN n.timers + 1 ELSE n.timers]
    ELSE n

\* goToPrev without the stopPreview() call
goToPrev_NoStop(n) ==
    IF n.idx > 0
    THEN [p |-> n.p, idx |-> n.idx - 1,
          timers |-> IF n.p.hasInteracted THEN n.timers + 1 ELSE n.timers]
    ELSE n

\* goToPrev scheduling the deferred play whatever hasInteracted is
goToPrev_AlwaysSchedule(n) ==
    IF n.idx > 0
    THEN LET p1 == stopPreview(n.p)
         IN [p |-> p1, idx |-> n.idx - 1, timers |-> n.timers + 1]
    ELSE n

goToPrev(n) ==
    IF n.idx > 0
    THEN LET p1 == stopPreview(n.p)
         IN [p |-> p1, idx |-> n.idx - 1,
             timers |-> IF p1.hasInteracted THEN n.timers + 1 ELSE n.timers]
    ELSE n

handleKeydown(n, key, accepted) ==
    IF key = "ArrowRight" THEN goToNext(n)
    ELSE IF key = "ArrowLeft" THEN goToPrev(n)
    ELSE IF key = " "
         THEN [n EXCEPT !.p = IF n.p.isPlaying THEN stopPreview(n.p)
                                ELSE playPreview(n.p, albums, n.idx, accepted)]
    ELSE n

\* the model keeps at most MaxTimers callbacks pending
TimerRoom(n) == n.timers <= MaxTimers

\* ------------------------------------------------------------------- loading
\* LoadRequest that never passes minTracks
LoadRequest_NoMinTracks(only) ==
    [count     |-> AlbumCount,
     genreIds  |-> IF Len(selectedGenres) > 0
                   THEN [defined |-> TRUE, val |-> selectedGenres]
                   ELSE [defined |-> FALSE, val |-> <<>>],
     minTracks |-> [defined |-> FALSE, val |-> 0]]

\* arguments of fetchRandomAlbums as loadAlbums computes them
LoadRequest(only) ==
    [count     |-> AlbumCount,
     genreIds  |-> IF Len(selectedGenres) > 0
                   THEN [defined |-> TRUE, val |-> selectedGenres]
                   ELSE [defined |-> FALSE, val |-> <<>>],
     minTracks |-> IF only
                   THEN [defined |-> TRUE, val |-> AlbumMinTrack]
                   ELSE [defined |-> FALSE, val |-> 0]]

\* loadAlbums that leaves the filter panel as it is
loadAlbums_KeepPanel(p, only) ==
    /\ fetchCount < MaxLoads
    /\ SetPlayer(stopPreview(p))
    /\ isLoading' = TRUE
    /\ error' = NoError
    /\ showGenreFilter' = showGenreFilter
    /\ pendingLoads' = Append(pendingLoads, LoadRequest(only))
    /\ fetchCount' = fetchCount + 1

\* loadAlbums up to the await of fetchRandomAlbums, called with the playback
\* state p and the value of showOnlyAlbums at the call
loadAlbums(p, only) ==
    /\ fetchCount < MaxLoads
    /\ SetPlayer(stopPreview(p))
    /\ isLoading' = TRUE
    /\ error' = NoError
    /\ showGenreFilter' = FALSE
    /\ pendingLoads' = Append(pendingLoads, LoadRequest(only))
    /\ fetchCount' = fetchCount + 1

\* LoadSuccess without the reset of currentIndex
LoadSuccess_KeepIndex(i, data) ==
    /\ i \in DOMAIN pendingLoads
    /\ pendingLoads' = RemoveAt(pendingLoads, i)
    /\ albums' = data
    /\ isLoading' = FALSE
    /\ UNCHANGED <<mounted, currentIndex, error, audioRef, audio, isPlaying,
                   isDragging, dragStartX, dragOffset, hasInteracted, genres,
                   selectedGenres, showGenreFilter, showOnlyAlbums, genresPending,
                   timers, fetchCount, triggerCount>>

\* LoadSuccess that also resets the genre selection
LoadSuccess_ResetFilter(i, data) ==
    /\ i \in DOMAIN pendingLoads
    /\ pendingLoads' = RemoveAt(pendingLoads, i)
    /\ albums' = data
    /\ currentIndex' = 0
    /\ isLoading' = FALSE
    /\ selectedGenres' = <<>>
    /\ UNCHANGED <<mounted, error, audioRef, audio, isPlaying, isDragging,
                   dragStartX, dragOffset, hasInteracted, genres,
                   showGenreFilter, showOnlyAlbums, genresPending, timers,
                   fetchCount, triggerCount>>

\* loadAlbums after the await, fetch resolved with data
LoadSuccess(i, data) ==
    /\ i \in DOMAIN pendingLoads
    /\ pendingLoads' = RemoveAt(pendingLoads, i)
    /\ albums' = data
    /\ currentIndex' = 0
    /\ isLoading' = FALSE
    /\ UNCHANGED <<mounted, error, audioRef, audio, isPlaying, isDragging,
                   dragStartX, dragOffset, hasInteracted, genres, selectedGenres,
                   showGenreFilter, showOnlyAlbums, genresPending, timers,
                   fetchCount, triggerCount>>

\* loadAlbums without its finally block: a failed fetch leaves isLoading set
LoadFail_KeepLoading(i) ==
    /\ i \in DOMAIN pendingLoads
    /\ pendingLoads' = RemoveAt(pendingLoads, i)
    /\ error' = ErrorMsg
    /\ UNCHANGED <<mounted, albums, currentIndex, isLoading, audioRef, audio,
                   isPlaying, isDragging, dragStartX, dragOffset, hasInteracted,
                   genres, selectedGenres, showGenreFilter, showOnlyAlbums,
                   genresPending, timers, fetchCount, triggerCount>>

\* LoadFail that leaves error unset
LoadFail_NoError(i) ==
    /\ i \in DOMAIN pendingLoads
    /\ pendingLoads' = RemoveAt(pendingLoads, i)
    /\ isLoading' = FALSE
    /\ UNCHANGED <<mounted, albums, currentIndex, error, audioRef, audio, isPlaying,
                   isDragging, dragStartX, dragOffset, hasInteracted, genres,
                   selectedGenres, showGenreFilter, showOnlyAlbums, genresPending,
                   timers, fetchCount, triggerCount>>

\* LoadFail that drops the held collection
LoadFail_ClearAlbums(i) ==
    /\ i \in DOMAIN pendingLoads
    /\ pendingLoads' = RemoveAt(pendingLoads, i)
    /\ albums' = <<>>
    /\ error' = ErrorMsg
    /\ isLoading' = FALSE
    /\ UNCHANGED <<mounted, currentIndex, audioRef, audio, isPlaying,
                   isDragging, dragStartX, dragOffset, hasInteracted, genres,
                   selectedGenres, showGenreFilter, showOnlyAlbums, genresPending,
                   timers, fetchCount, triggerCount>>

\* LoadFail that fetches again by itself
LoadFail_Retry(i) ==
    /\ i \in DOMAIN pendingLoads
    /\ fetchCount < MaxLoads
    /\ pendingLoads' = Append(RemoveAt(pendingLoads, i), pendingLoads[i])
    /\ fetchCount' = fetchCount + 1
    /\ error' = ErrorMsg
    /\ UNCHANGED <<mounted, albums, currentIndex, isLoading, audioRef, audio,
                   isPlaying, isDragging, dragStartX, dragOffset, hasInteracted,
                   genres, selectedGenres, showGenreFilter, showOnlyAlbums,
                   genresPending, timers, triggerCount>>

\* loadAlbums after the await, fetch rejected
LoadFail(i) ==
    /\ i \in DOMAIN pendingLoads
    /\ pendingLoads' = RemoveAt(pendingLoads, i)
    /\ error' = ErrorMsg
    /\ isLoading' = FALSE
    /\ UNCHANGED <<mounted, albums, currentIndex, audioRef, audio, isPlaying,
                   isDragging, dragStartX, dragOffset, hasInteracted, genres,
                   selectedGenres, showGenreFilter, showOnlyAlbums, genresPending,
                   timers, fetchCount, triggerCount>>

\* loadGenres that reports a failed fetch in the error state
GenresLoaded_SetsError(ok) ==
    /\ genresPending
    /\ genresPending' = FALSE
    /\ genres' = IF ok THEN AllGenres ELSE genres
    /\ error' = IF ok THEN error ELSE ErrorMsg
    /\ UNCHANGED <<mounted, albums, currentIndex, isLoading, audioRef,
                   audio, isPlaying, isDragging, dragStartX, dragOffset,
                   hasInteracted, selectedGenres, showGenreFilter, showOnlyAlbums,
                   pendingLoads, timers, fetchCount, triggerCount>>

\* loadGenres after the await
GenresLoaded(ok) ==
    /\ genresPending
    /\ genresPending' = FALSE
    /\ genres' = IF ok THEN AllGenres ELSE genres
    /\ UNCHANGED <<mounted, albums, currentIndex, isLoading, error, audioRef,
                   audio, isPlaying, isDragging, dragStartX, dragOffset,
                   hasInteracted, selectedGenres, showGenreFilter, showOnlyAlbums,
                   pendingLoads, timers, fetchCount, triggerCount>>

\* The template is rendered (binding audioRef), then onMounted runs:
\* loadGenres(); loadAlbums(); addEventListener('keydown')
Mount ==
    /\ ~mounted
    /\ mounted' = TRUE
    /\ audioRef' = TRUE
    /\ genresPending' = TRUE
    /\ loadAlbums([Player EXCEPT !.ref = TRUE], showOnlyAlbums)
    /\ triggerCount' = triggerCount + 1
    /\ UNCHANGED <<albums, currentIndex, isDragging, dragStartX,
                   dragOffset, genres, selectedGenres, showOnlyAlbums, timers>>

Init ==
    /\ mounted = FALSE
    /\ albums = <<>>
    /\ currentIndex = 0
    /\ isLoading = TRUE
    /\ error = NoError
    /\ audioRef = FALSE
    /\ audio = [src |-> NoSrc, paused |-> TRUE, currentTime |-> 0, volume |-> DefaultVolPct]
    /\ isPlaying = FALSE
    /\ isDragging = FALSE
    /\ dragStartX = 0
    /\ dragOffset = 0
    /\ hasInteracted = FALSE
    /\ genres = <<>>
    /\ selectedGenres = <<>>
    /\ showGenreFilter = FALSE
    /\ showOnlyAlbums = FALSE
    /\ pendingLoads = <<>>
    /\ genresPending = FALSE
    /\ timers = 0
    /\ fetchCount = 0
    /\ triggerCount = 0

\* ------------------------------------------------------------ load triggers
\* retry-btn, rendered in the error view
ClickRetry ==
    /\ mounted /\ View = "error"
    /\ loadAlbums(Player, showOnlyAlbums)
    /\ triggerCount' = triggerCount + 1
    /\ UNCHANGED <<mounted, albums, currentIndex, audioRef, isDragging, dragStartX,
                   dragOffset, genres, selectedGenres, showOnlyAlbums,
                   genresPending, timers>>

\* a shuffle-btn that is rendered in every view
ClickShuffle_WhileLoading ==
    /\ mounted
    /\ loadAlbums(Player, showOnlyAlbums)
    /\ triggerCount' = triggerCount + 1
    /\ UNCHANGED <<mounted, albums, currentIndex, audioRef, isDragging, dragStartX,
                   dragOffset, genres, selectedGenres, showOnlyAlbums,
                   genresPending, timers>>

\* shuffle-btn, rendered in the crate view
ClickShuffle ==
    /\ mounted /\ View = "crate"
    /\ loadAlbums(Player, showOnlyAlbums)
    /\ triggerCount' = triggerCount + 1
    /\ UNCHANGED <<mounted, albums, currentIndex, audioRef, isDragging, dragStartX,
                   dragOffset, genres, selectedGenres, showOnlyAlbums,
                   genresPending, timers>>

\* release-type-dropdown: v-model writes showOnlyAlbums, @change calls loadAlbums()
ChangeReleaseType(v) ==
    /\ mounted /\ View = "crate"
    /\ v # showOnlyAlbums
    /\ showOnlyAlbums' = v
    /\ loadAlbums(Player, v)
    /\ triggerCount' = triggerCount + 1
    /\ UNCHANGED <<mounted, albums, currentIndex, audioRef, isDragging, dragStartX,
                   dragOffset, genres, selectedGenres, genresPending, timers>>

\* apply-filter-btn, rendered in the open filter panel
ClickApply ==
    /\ mounted /\ View = "crate" /\ showGenreFilter
    /\ loadAlbums(Player, showOnlyAlbums)
    /\ triggerCount' = triggerCount + 1
    /\ UNCHANGED <<mounted, albums, currentIndex, audioRef, isDragging, dragStartX,
                   dragOffset, genres, selectedGenres, showOnlyAlbums,
                   genresPending, timers>>

\* -------------------------------------------------------------- filter panel
\* filter-btn: showGenreFilter = !showGenreFilter
ClickFilterBtn ==
    /\ mounted /\ View = "crate"
    /\ showGenreFilter' = ~showGenreFilter
    /\ UNCHANGED <<mounted, albums, currentIndex, isLoading, error, audioRef, audio,
                   isPlaying, isDragging, dragStartX, dragOffset, hasInteracted,
                   genres, selectedGenres, showOnlyAlbums, pendingLoads,
                   genresPending, timers, fetchCount, triggerCount>>

\* toggleGenre's array update without the indexOf test
toggleGenreSelection_AlwaysPush(sel, genreId) == Append(sel, genreId)

toggleGenreSelection(sel, genreId) ==
    LET index == IndexOf(sel, genreId)
    IN IF index = -1 THEN Append(sel, genreId) ELSE RemoveAt(sel, index + 1)

\* toggleGenre that reloads by itself
toggleGenre_Reload(genreId) ==
    /\ mounted /\ View = "crate" /\ showGenreFilter
    /\ \E i \in DOMAIN genres : genres[i] = genreId
    /\ selectedGenres' = toggleGenreSelection(selectedGenres, genreId)
    /\ loadAlbums(Player, showOnlyAlbums)
    /\ UNCHANGED <<mounted, albums, currentIndex, audioRef, isDragging, dragStartX,
                   dragOffset, genres, showOnlyAlbums, genresPending, timers,
                   triggerCount>>

\* toggleGenre without the stopPreview() call
toggleGenre_NoStop(genreId) ==
    /\ mounted /\ View = "crate" /\ showGenreFilter
    /\ \E i \in DOMAIN genres : genres[i] = genreId
    /\ selectedGenres' = toggleGenreSelection(selectedGenres, genreId)
    /\ UNCHANGED <<mounted, albums, currentIndex, isLoading, error, audioRef,
                   audio, isPlaying, hasInteracted,
                   isDragging, dragStartX, dragOffset, genres, showGenreFilter,
                   showOnlyAlbums, pendingLoads, genresPending, timers,
                   fetchCount, triggerCount>>

\* genre-chip click: toggleGenre(genre.id)
toggleGenre(genreId) ==
    /\ mounted /\ View = "crate" /\ showGenreFilter
    /\ \E i \in DOMAIN genres : genres[i] = genreId
    /\ SetPlayer(stopPreview(Player))
    /\ selectedGenres' = toggleGenreSelection(selectedGenres, genreId)
    /\ UNCHANGED <<mounted, albums, currentIndex, isLoading, error, audioRef,
                   isDragging, dragStartX, dragOffset, genres, showGenreFilter,
                   showOnlyAlbums, pendingLoads, genresPending, timers,
                   fetchCount, triggerCount>>

\* clearGenreFilter that also stops playback
clearGenreFilter_Stop ==
    /\ mounted /\ View = "crate" /\ showGenreFilter
    /\ Len(selectedGenres) > 0
    /\ selectedGenres' = <<>>
    /\ SetPlayer(stopPreview(Player))
    /\ UNCHANGED <<mounted, albums, currentIndex, isLoading, error, audioRef,
                   isDragging, dragStartX, dragOffset,
                   genres, showGenreFilter, showOnlyAlbums, pendingLoads,
                   genresPending, timers, fetchCount, triggerCount>>

\* clear-btn, rendered when some genre is selected
clearGenreFilter ==
    /\ mounted /\ View = "crate" /\ showGenreFilter
    /\ Len(selectedGenres) > 0
    /\ selectedGenres' = <<>>
    /\ UNCHANGED <<mounted, albums, currentIndex, isLoading, error, audioRef, audio,
                   isPlaying, isDragging, dragStartX, dragOffset, hasInteracted,
                   genres, showGenreFilter, showOnlyAlbums, pendingLoads,
                   genresPending, timers, fetchCount, triggerCount>>

\* ------------------------------------------------------ navigation and play
NavFrame == UNCHANGED <<mounted, albums, isLoading, error, audioRef, genres,
                        selectedGenres, showGenreFilter, showOnlyAlbums,
                        pendingLoads, genresPending, fetchCount, triggerCount>>

\* window keydown listener; works in every view
KeyDown(key, accepted) ==
    /\ mounted
    /\ TimerRoom(handleKeydown(NavState, key, accepted))
    /\ SetNav(handleKeydown(NavState, key, accepted))
    /\ NavFrame
    /\ UNCHANGED <<isDragging, dragStartX, dragOffset>>

\* next-btn, disabled on the last album
ClickNext ==
    /\ mounted /\ View = "crate"
    /\ ~(currentIndex = Len(albums) - 1)
    /\ TimerRoom(goToNext(NavState))
    /\ SetNav(goToNext(NavState))
    /\ NavFrame
    /\ UNCHANGED <<isDragging, dragStartX, dragOffset>>

\* prev-btn, disabled on the first album
ClickPrev ==
    /\ mounted /\ View = "crate"
    /\ ~(currentIndex = 0)
    /\ TimerRoom(goToPrev(NavState))
    /\ SetNav(goToPrev(NavState))
    /\ NavFrame
    /\ UNCHANGED <<isDragging, dragStartX, dragOffset>>

\* click on the current album card: isPlaying ? stopPreview() : playPreview()
ClickAlbum(accepted) ==
    /\ mounted /\ View = "crate"
    /\ SetPlayer(IF isPlaying THEN stopPreview(Player)
                 ELSE playPreview(Player, albums, currentIndex, accepted))
    /\ NavFrame
    /\ UNCHANGED <<currentIndex, timers, isDragging, dragStartX, dragOffset>>

\* a timer callback that plays a neighbour of the current album
TimerFire_Stale(accepted) ==
    /\ timers > 0
    /\ timers' = timers - 1
    /\ SetPlayer(playPreview(Player, albums,
                             IF currentIndex > 0 THEN currentIndex - 1 ELSE currentIndex + 1,
                             accepted))
    /\ NavFrame
    /\ UNCHANGED <<currentIndex, isDragging, dragStartX, dragOffset>>

\* a setTimeout(playPreview, 150) callback runs
TimerFire(accepted) ==
    /\ timers > 0
    /\ timers' = timers - 1
    /\ SetPlayer(playPreview(Player, albums, currentIndex, accepted))
    /\ NavFrame
    /\ UNCHANGED <<currentIndex, isDragging, dragStartX, dragOffset>>

\* ---------------------------------------------------------------- dragging
\* mousedown / touchstart on the album stack
handleDragStart(x) ==
    /\ mounted /\ View = "crate"
    /\ isDragging' = TRUE
    /\ dragStartX' = x
    /\ dragOffset' = 0
    /\ NavFrame
    /\ UNCHANGED <<currentIndex, timers, audio, isPlaying, hasInteracted>>

\* handleDragMove without the isDragging test
handleDragMove_NoGuard(x) ==
    /\ mounted /\ View = "crate"
    /\ dragOffset' = x - dragStartX
    /\ NavFrame
    /\ UNCHANGED <<currentIndex, timers, audio, isPlaying, hasInteracted,
                   isDragging, dragStartX>>

\* mousemove / touchmove on the album stack
handleDragMove(x) ==
    /\ mounted /\ View = "crate"
    /\ IF ~isDragging THEN UNCHANGED dragOffset
       ELSE dragOffset' = x - dragStartX
    /\ NavFrame
    /\ UNCHANGED <<currentIndex, timers, audio, isPlaying, hasInteracted,
                   isDragging, dragStartX>>

\* the threshold test of handleDragEnd with >= and <=
dragEndNav_Inclusive(n, offset) ==
    IF offset >= Threshold THEN goToPrev(n)
    ELSE IF offset <= -Threshold THEN goToNext(n)
    ELSE n

dragEndNav(n, offset) ==
    IF offset > Threshold THEN goToPrev(n)
    ELSE IF offset < -Threshold THEN goToNext(n)
    ELSE n

\* mouseup / mouseleave / touchend on the album stack
handleDragEnd ==
    /\ mounted /\ View = "crate"
    /\ IF ~isDragging
       THEN UNCHANGED <<isDragging, dragOffset, currentIndex, timers, audio,
                        isPlaying, hasInteracted>>
       ELSE /\ isDragging' = FALSE
            /\ TimerRoom(dragEndNav(NavState, dragOffset))
            /\ SetNav(dragEndNav(NavState, dragOffset))
            /\ dragOffset' = 0
    /\ NavFrame
    /\ UNCHANGED dragStartX

\* ----------------------------------------------------------- audio element
\* playback advances
AudioProgress ==
    /\ ~audio.paused /\ audio.currentTime < Duration
    /\ audio' = [audio EXCEPT !.currentTime = @ + 1]
    /\ NavFrame
    /\ UNCHANGED <<currentIndex, timers, isPlaying, hasInteracted, isDragging,
                   dragStartX, dragOffset>>

\* an ended handler that also rewinds the element
AudioEnded_Rewind ==
    /\ ~audio.paused /\ audio.currentTime = Duration
    /\ audio' = [audio EXCEPT !.paused = TRUE, !.currentTime = 0]
    /\ isPlaying' = FALSE
    /\ NavFrame
    /\ UNCHANGED <<currentIndex, timers, hasInteracted, isDragging, dragStartX,
                   dragOffset>>

\* the clip reaches its end: the element pauses and fires ended;
\* <audio @ended="isPlaying = false">
AudioEnded ==
    /\ ~audio.paused /\ audio.currentTime = Duration
    /\ audio' = [audio EXCEPT !.paused = TRUE]
    /\ isPlaying' = FALSE
    /\ NavFrame
    /\ UNCHANGED <<currentIndex, timers, hasInteracted, isDragging, dragStartX,
                   dragOffset>>

Next ==
    \/ Mount
    \/ \E ok \in BOOLEAN : GenresLoaded(ok)
    \/ \E i \in DOMAIN pendingLoads : \E data \in Responses : LoadSuccess(i, data)
    \/ \E i \in DOMAIN pendingLoads : LoadFail(i)
    \/ ClickRetry
    \/ ClickShuffle
    \/ \E v \in BOOLEAN : ChangeReleaseType(v)
    \/ ClickApply
    \/ ClickFilterBtn
    \/ \E g \in {AllGenres[i] : i \in DOMAIN AllGenres} : toggleGenre(g)
    \/ clearGenreFilter
    \/ \E key \in Keys : \E accepted \in BOOLEAN : KeyDown(key, accepted)
    \/ ClickNext
    \/ ClickPrev
    \/ \E accepted \in BOOLEAN : ClickAlbum(accepted)
    \/ \E accepted \in BOOLEAN : TimerFire(accepted)
    \/ \E x \in StartXs : handleDragStart(x)
    \/ \E x \in MoveXs : handleDragMove(x)
    \/ handleDragEnd
    \/ AudioProgress
    \/ AudioEnded

Spec == Init /\ [][Next]_vars

\* ------------------------------------------------------- steps, by handler
\* the variables no keydown, button or drag-release handler writes
NavShape ==
    UNCHANGED <<albums, pendingLoads, dragStartX, selectedGenres, showGenreFilter,
                genresPending>>

\* a step that runs goToNext: right arrow, next button, drag released left
\* of the threshold
NextStep ==
    /\ NavShape
    /\ \/ KeyDown("ArrowRight", TRUE)
       \/ ClickNext
       \/ (isDragging /\ dragOffset < -Threshold /\ handleDragEnd)

\* a step that runs goToPrev
PrevStep ==
    /\ NavShape
    /\ \/ KeyDown("ArrowLeft", TRUE)
       \/ ClickPrev
       \/ (isDragging /\ dragOffset > Threshold /\ handleDragEnd)

\* a step that runs playPreview
PlayStep ==
    \/ \E a \in BOOLEAN : TimerFire(a)
    \/ (~isPlaying /\ \E a \in BOOLEAN : ClickAlbum(a))
    \/ (~isPlaying /\ \E a \in BOOLEAN : KeyDown(" ", a))

LoadSuccessStep == \E i \in DOMAIN pendingLoads : \E data \in Responses : LoadSuccess(i, data)

LoadFailStep == \E i \in DOMAIN pendingLoads : LoadFail(i)

\* ------------------------------------------------------------------ claims

\* C1: whenever the held album list is non-empty, 0 <= currentIndex < length,
\* also right after a reload replaced the list by a shorter one.
C1_IndexInBounds ==
    Len(albums) > 0 => (0 <= currentIndex /\ currentIndex < Len(albums))

\* a reload delivered a one-album list after the user had navigated in a
\* longer one (a deferred play of that navigation is still pending)
C1_Witness ==
    /\ fetchCount >= 2 /\ pendingLoads = <<>> /\ ~isLoading
    /\ Len(albums) = 1 /\ timers > 0

\* C2: whenever the playback state is Playing, the preview bound to the audio
\* element is the preview of the album at currentIndex of the held list.
C2_PlayingIsCurrent ==
    isPlaying => audio.src = PreviewUrl(currentAlbum(albums, currentIndex))

\* C3: the step in which a load succeeds leaves currentIndex = 0 and the
\* playback state Stopped.
C3_AfterLoadStopped ==
    [][LoadSuccessStep => (currentIndex' = 0 /\ ~isPlaying')]_vars

\* C4: every playPreview that binds a preview to the audio element runs while
\* the playback state is Stopped.
C4_BindOnlyWhenStopped ==
    [][(PlayStep /\ audioRef /\ currentAlbum(albums, currentIndex) # NoAlbum)
         => ~isPlaying]_vars

\* C5: next() moves from i < n-1 to i+1 and is a no-op at i = n-1; prev()
\* moves from i > 0 to i-1 and is a no-op at i = 0; a no-op leaves the index,
\* the playback state and the pending deferred plays unchanged; with an empty
\* list both are no-ops.
C5_NextPrevIndex ==
    [][/\ NextStep =>
            IF currentIndex < Len(albums) - 1
            THEN currentIndex' = currentIndex + 1
            ELSE UNCHANGED <<currentIndex, isPlaying, audio, timers>>
       /\ PrevStep =>
            IF currentIndex > 0
            THEN currentIndex' = currentIndex - 1
            ELSE UNCHANGED <<currentIndex, isPlaying, audio, timers>>]_vars

\* the user stands on the last album of a longer list, having walked there
C5_Witness ==
    /\ Len(albums) >= 2 /\ currentIndex = Len(albums) - 1 /\ ~isLoading /\ ~isDragging

\* C6: a next() or prev() that changes the index has stopped playback: in the
\* state with the new index the playback state is Stopped and the element is
\* paused at position 0.
C6_StopBeforeMove ==
    [][(currentIndex' # currentIndex /\ (NextStep \/ PrevStep))
         => (~isPlaying' /\ audio'.paused /\ audio'.currentTime = 0)]_vars

\* the index has moved away from the album whose preview is bound, and
\* playback is stopped
C6_Witness ==
    /\ Len(albums) >= 2 /\ currentIndex > 0 /\ timers > 0 /\ ~isPlaying
    /\ audio.src = PreviewUrl(albums[currentIndex])

\* C7 as stated: after a failed reload the previously loaded collection is
\* still the displayed view (a non-empty list is held only after a load has
\* succeeded), so the error view is never shown over a held collection.
C7_FailedReloadKeepsCrateView ==
    [][(LoadFailStep /\ Len(albums) > 0) => View' = "crate"]_vars

\* C7 amended: every failed load, also a reload after an earlier success,
\* brings up the error view; the held collection is kept but not displayed.
C7_FailedLoadShowsError ==
    [][LoadFailStep => (View' = "error" /\ albums' = albums)]_vars

\* the error view is up while a previously loaded collection is held
C7_Witness ==
    View = "error" /\ Len(albums) > 0

\* C8: the step in which a load fails leaves the album list and currentIndex
\* as they were, sets the error condition and clears the loading flag.
C8_FailKeepsCollection ==
    [][LoadFailStep => /\ albums' = albums
                       /\ currentIndex' = currentIndex
                       /\ error' = ErrorMsg
                       /\ isLoading' = FALSE]_vars

\* a reload has failed while the user stood on a later album of the list
C8_Witness ==
    /\ error = ErrorMsg /\ ~isLoading /\ pendingLoads = <<>>
    /\ Len(albums) >= 2 /\ currentIndex > 0

\* C9: album fetches are issued by load triggers only: the number of fetches
\* issued equals the number of triggers, and a failed load issues none.
C9_NoAutomaticRetry ==
    /\ fetchCount = triggerCount
    /\ Len(pendingLoads) <= fetchCount

\* a retry has failed again and nothing is in flight
C9_Witness ==
    /\ error = ErrorMsg /\ pendingLoads = <<>> /\ fetchCount >= 2
    /\ Len(albums) = 0

\* C10: a next() or prev() that changes the index schedules one deferred play
\* when hasInteracted is true and none when it is false; while hasInteracted
\* is false nothing is playing and no deferred play is pending.
C10_AutoplayOnlyAfterInteraction ==
    /\ [][(currentIndex' # currentIndex /\ (NextStep \/ PrevStep))
            => timers' = timers + (IF hasInteracted THEN 1 ELSE 0)]_vars
    /\ [](~hasInteracted => (~isPlaying /\ timers = 0))

\* the user has navigated without ever having played
C10_Witness ==
    ~hasInteracted /\ currentIndex > 0 /\ ~isPlaying

\* C11: a drag released in state Dragging commits prev() when offset > 80,
\* next() when offset < -80 and nothing otherwise (also at exactly 80 and
\* -80); the index moves by at most one; a release with no gesture open
\* changes nothing.
C11_DragEndThreshold ==
    [][(NavShape /\ handleDragEnd) =>
         IF ~isDragging THEN UNCHANGED vars
         ELSE IF dragOffset > Threshold
              THEN /\ currentIndex' = (IF currentIndex > 0 THEN currentIndex - 1 ELSE currentIndex)
                   /\ SetNav(goToPrev(NavState))
         ELSE IF dragOffset < -Threshold
              THEN /\ currentIndex' = (IF currentIndex < Len(albums) - 1
                                       THEN currentIndex + 1 ELSE currentIndex)
                   /\ SetNav(goToNext(NavState))
         ELSE UNCHANGED <<currentIndex, timers, audio, isPlaying, hasInteracted>>]_vars

\* a gesture is open with the pointer exactly one threshold left of its start,
\* and there is a next album to go to
C11_Witness ==
    /\ View = "crate" /\ isDragging /\ dragOffset = -Threshold
    /\ currentIndex < Len(albums) - 1

\* C12: outside a gesture the offset is 0; every drag end leaves
\* {dragging: false, offset: 0}; a drag move with no gesture open changes
\* nothing.
C12_GestureNeutral ==
    /\ [](~isDragging => dragOffset = 0)
    /\ [][(NavShape /\ handleDragEnd) => (~isDragging' /\ dragOffset' = 0)]_vars
    /\ [][(~isDragging /\ \E x \in MoveXs : handleDragMove(x)) => UNCHANGED vars]_vars

\* a gesture was started and has ended; the user stands on the last album,
\* where a committed next() is a no-op
C12_Witness ==
    /\ ~isDragging /\ dragOffset = 0 /\ dragStartX \in StartXs
    /\ Len(albums) > 0 /\ currentIndex = Len(albums) - 1

\* --------------------------------------------------------- filter selection
SetOf(sel) == {sel[i] : i \in DOMAIN sel}

NoDuplicates(sel) == \A i, j \in DOMAIN sel : sel[i] = sel[j] => i = j

GenreIds == SetOf(AllGenres)

ToggleStep == \E g \in GenreIds : toggleGenre(g)

ReleaseTypeStep == \E v \in BOOLEAN : ChangeReleaseType(v)

\* C14 as stated: no change of the filter selection (genre set or albumsOnly)
\* starts a load.
C14_FilterChangeStartsNoLoad ==
    [][(selectedGenres' # selectedGenres \/ showOnlyAlbums' # showOnlyAlbums)
         => (fetchCount' = fetchCount /\ pendingLoads' = pendingLoads)]_vars

\* C14 amended: a change of the genre set (toggle, clear) starts no load; a
\* change of the release type starts exactly one.
C14_OnlyReleaseTypeReloads ==
    /\ [][selectedGenres' # selectedGenres
            => (fetchCount' = fetchCount /\ pendingLoads' = pendingLoads /\ ~isLoading')]_vars
    /\ [][showOnlyAlbums' # showOnlyAlbums
            => (fetchCount' = fetchCount + 1 /\ Len(pendingLoads') = Len(pendingLoads) + 1
                /\ isLoading')]_vars

\* a genre is selected and the release type was changed: the mount load and
\* the load of the release-type change are the only fetches issued
C14_Witness ==
    Len(selectedGenres) > 0 /\ showOnlyAlbums /\ fetchCount = 2

\* C15: toggling any genre twice in a row gives back the selection the user
\* has now: same members, no duplicates.
C15_ToggleTwice ==
    \A g \in GenreIds :
        LET twice == toggleGenreSelection(toggleGenreSelection(selectedGenres, g), g)
        IN SetOf(twice) = SetOf(selectedGenres) /\ NoDuplicates(twice)

\* both genres are selected, the one that the tests select second first
C15_Witness ==
    selectedGenres = <<AllGenres[2], AllGenres[1]>>

\* C16: toggleGenre(id) leaves playback Stopped, flips the membership of id
\* and of no other genre, and leaves the collection and currentIndex alone.
C16_ToggleGenreEffect ==
    [][\A g \in GenreIds :
         (selectedGenres' # selectedGenres /\ toggleGenre(g)) =>
            /\ ~isPlaying' /\ audio'.paused
            /\ (g \in SetOf(selectedGenres')) = (g \notin SetOf(selectedGenres))
            /\ SetOf(selectedGenres') \ {g} = SetOf(selectedGenres) \ {g}
            /\ UNCHANGED <<albums, currentIndex>>]_vars

\* one genre is selected, after the user had played and moved on in the list
C16_Witness ==
    /\ Len(selectedGenres) = 1 /\ showGenreFilter /\ hasInteracted
    /\ ~isPlaying /\ currentIndex > 0

\* C17: clearGenreFilter empties the selected set and writes nothing else.
C17_ClearOnlyClears ==
    [][(selectedGenres' # selectedGenres /\ clearGenreFilter) =>
         /\ selectedGenres' = <<>>
         /\ UNCHANGED <<mounted, albums, currentIndex, isLoading, error, audioRef,
                        audio, isPlaying, isDragging, dragStartX, dragOffset,
                        hasInteracted, genres, showGenreFilter, showOnlyAlbums,
                        pendingLoads, genresPending, timers, fetchCount,
                        triggerCount>>]_vars

\* the clear button is on screen while a preview is playing
C17_Witness ==
    /\ View = "crate" /\ showGenreFilter /\ Len(selectedGenres) > 0
    /\ isPlaying /\ showOnlyAlbums

\* C18: only toggleGenre, clearGenreFilter and the release-type control
\* change the selected genres or the albumsOnly toggle.
C18_FilterPersists ==
    [][(selectedGenres' # selectedGenres \/ showOnlyAlbums' # showOnlyAlbums)
         => (ToggleStep \/ clearGenreFilter \/ ReleaseTypeStep)]_vars

\* the selection made before a reload is still there after it and after a
\* navigation in the new list
C18_Witness ==
    /\ Len(selectedGenres) > 0 /\ showOnlyAlbums /\ fetchCount >= 2
    /\ ~isLoading /\ pendingLoads = <<>> /\ currentIndex > 0

\* C19: every call of fetchRandomAlbums passes count 10, the selected genres
\* (undefined when none is selected) and minTracks 2 when albumsOnly is set
\* (undefined otherwise), as they are when the load is invoked.
C19_RequestUsesCurrentFilter ==
    [][fetchCount' # fetchCount =>
         /\ Len(pendingLoads') = Len(pendingLoads) + 1
         /\ LET req == pendingLoads'[Len(pendingLoads')]
            IN /\ req.count = 10
               /\ req.genreIds.defined = (Len(selectedGenres') > 0)
               /\ req.genreIds.defined => req.genreIds.val = selectedGenres'
               /\ req.minTracks.defined = showOnlyAlbums'
               /\ req.minTracks.defined => req.minTracks.val = 2]_vars

\* a load is in flight that was asked for with both genres and albums only
C19_Witness ==
    /\ Len(pendingLoads) = 1
    /\ pendingLoads[1].genreIds.defined /\ Len(pendingLoads[1].genreIds.val) = 2
    /\ pendingLoads[1].minTracks.defined

\* C20: Apply & Shuffle closes the filter panel in the step that starts the
\* load, and the panel is closed in the step that completes a load.
C20_ApplyClosesPanel ==
    /\ [][(fetchCount' # fetchCount /\ ClickApply) => (~showGenreFilter' /\ isLoading')]_vars
    /\ [][Len(pendingLoads') < Len(pendingLoads) => ~showGenreFilter']_vars
    /\ [](isLoading => ~showGenreFilter)

\* a load asked for with a genre selected and all release types is in flight
C20_Witness ==
    /\ isLoading /\ Len(pendingLoads) = 1 /\ ~showGenreFilter
    /\ pendingLoads[1].genreIds.defined /\ ~pendingLoads[1].minTracks.defined

\* a step in which the user stops playback: click on the card or Space
\* while isPlaying
StopStep ==
    /\ isPlaying /\ NavShape
    /\ (ClickAlbum(TRUE) \/ KeyDown(" ", TRUE))

\* C21 as stated: stopPreview called in any Stopped state changes nothing.
C21_StopWhenStoppedChangesNothing ==
    (audioRef /\ ~isPlaying) => stopPreview(Player) = Player

\* C21: stopPreview leaves the state Stopped with the element paused at
\* position 0 and nothing else changed; applied twice it gives the result of
\* applying it once; with no audio element bound it changes nothing; called
\* when already Stopped it keeps Stopped and changes nothing but the position,
\* which it rewinds to 0 (so nothing at all when the position is already 0).
C21_StopIdempotent ==
    /\ [](LET s1 == stopPreview(Player)
          IN /\ audioRef => /\ ~s1.isPlaying
                            /\ s1.audio = [audio EXCEPT !.paused = TRUE, !.currentTime = 0]
                            /\ s1.hasInteracted = hasInteracted
             /\ stopPreview(s1) = s1
             /\ ~audioRef => s1 = Player
             /\ (audioRef /\ ~isPlaying) => s1 = [Player EXCEPT !.audio.currentTime = 0])
    /\ [][StopStep => (~isPlaying' /\ audio'.paused /\ audio'.currentTime = 0)]_vars

\* Stopped on a later album of the crate, with the position left at the end
\* of a clip that played through
C21_Witness ==
    /\ audioRef /\ ~isPlaying /\ audio.currentTime > 0
    /\ currentIndex > 0

\* C22: the ended event sets the state to Stopped and changes nothing else:
\* position and bound preview of the element, currentIndex, the album list,
\* hasInteracted, the pending deferred plays and the load state are unchanged.
C22_EndedOnlyStops ==
    [][AudioEnded =>
         /\ ~isPlaying'
         /\ audio'.currentTime = audio.currentTime
         /\ audio'.src = audio.src
         /\ audio'.volume = audio.volume
         /\ UNCHANGED <<currentIndex, albums, hasInteracted, timers, error,
                        isLoading, pendingLoads, selectedGenres>>]_vars

\* the clip of the current album has played through
C22_Witness ==
    /\ ~isPlaying /\ audio.paused /\ audio.currentTime = Duration
    /\ audio.src = PreviewUrl(currentAlbum(albums, currentIndex))
    /\ hasInteracted

fetchRandomAlbums_GenresAlways(count, genreIds, minTracks) ==
    <<[name |-> "count", val |-> <<count>>]>>
    \o <<[name |-> "genres", val |-> genreIds.val]>>
    \o (IF minTracks.defined /\ minTracks.val > 0
        THEN <<[name |-> "min_tracks", val |-> <<minTracks.val>>]>>
        ELSE <<>>)

\* The query string fetchRandomAlbums builds, as the list of its name=value
\* parameters in the order they are written; a value is the list of numbers
\* that the template literal or join(',') writes.
fetchRandomAlbums(count, genreIds, minTracks) ==
    <<[name |-> "count", val |-> <<count>>]>>
    \o (IF genreIds.defined /\ Len(genreIds.val) > 0
        THEN <<[name |-> "genres", val |-> genreIds.val]>>
        ELSE <<>>)
    \o (IF minTracks.defined /\ minTracks.val > 0
        THEN <<[name |-> "min_tracks", val |-> <<minTracks.val>>]>>
        ELSE <<>>)

\* the query string of a load in flight
Query(req) == fetchRandomAlbums(req.count, req.genreIds, req.minTracks)

\* arguments the api tests and the component pass for genreIds and minTracks
Undefined == [defined |-> FALSE, val |-> 0]

GenreIdArgs ==
    {Undefined} \cup {[defined |-> TRUE, val |-> ids] :
                         ids \in {<<>>, <<129>>, <<152>>, <<129, 152>>, <<152, 129>>}}

MinTracksArgs == {Undefined} \cup {[defined |-> TRUE, val |-> n] : n \in -1..AlbumMinTrack}

\* C24 as stated: whenever a load is in flight that was requested with the
\* genre set {129,152} selected and albums only, its query string is
\* count=10&genres=129,152&min_tracks=2, in whichever order the two genres
\* were selected.
C24_QueryForGenreSet ==
    \A i \in DOMAIN pendingLoads :
        (/\ pendingLoads[i].genreIds.defined
         /\ SetOf(pendingLoads[i].genreIds.val) = {129, 152}
         /\ pendingLoads[i].minTracks.defined)
        => Query(pendingLoads[i]) = <<[name |-> "count", val |-> <<10>>],
                                      [name |-> "genres", val |-> <<129, 152>>],
                                      [name |-> "min_tracks", val |-> <<2>>]>>

\* C24: the query is count, then genres, then min_tracks; genres is present
\* exactly when the genre list is defined and non-empty, and lists the ids in
\* the order of the list (the order of selection); min_tracks is present
\* exactly when minTracks is defined and > 0; for the genres 129 and 152
\* selected in that order with albums only the query is exactly
\* count=10&genres=129,152&min_tracks=2.
C24_QueryBuilt ==
    /\ \A g \in GenreIdArgs : \A m \in MinTracksArgs :
         LET q == fetchRandomAlbums(AlbumCount, g, m)
             hasGenres == g.defined /\ Len(g.val) > 0
             hasMin == m.defined /\ m.val > 0
         IN /\ Len(q) = 1 + (IF hasGenres THEN 1 ELSE 0) + (IF hasMin THEN 1 ELSE 0)
            /\ q[1] = [name |-> "count", val |-> <<10>>]
            /\ hasGenres => q[2] = [name |-> "genres", val |-> g.val]
            /\ hasMin => q[Len(q)] = [name |-> "min_tracks", val |-> <<m.val>>]
    /\ \A i \in DOMAIN pendingLoads :
         LET req == pendingLoads[i]
             q == Query(req)
         IN /\ (\E k \in DOMAIN q : q[k].name = "genres") <=> req.genreIds.defined
            /\ (\E k \in DOMAIN q : q[k].name = "min_tracks") <=> req.minTracks.defined
            /\ (req.genreIds.defined /\ req.genreIds.val = <<129, 152>> /\ req.minTracks.defined)
               => q = <<[name |-> "count", val |-> <<10>>],
                        [name |-> "genres", val |-> <<129, 152>>],
                        [name |-> "min_tracks", val |-> <<2>>]>>

\* a load is in flight for albums only of the genres 152 and 129, selected in
\* that order
C24_Witness ==
    /\ Len(pendingLoads) = 1
    /\ pendingLoads[1].genreIds.defined
    /\ pendingLoads[1].genreIds.val = <<152, 129>>
    /\ pendingLoads[1].minTracks.defined

\* C25: the step in which the genre fetch fails leaves the genre list empty
\* and changes nothing of the error state, the album list, the index, the
\* load in flight, the playback state or the pending deferred plays; the
\* error state is set only by the step in which an album fetch fails.
C25_GenreFailureSilent ==
    /\ [][GenresLoaded(FALSE) =>
            /\ genres' = <<>>
            /\ UNCHANGED <<error, albums, currentIndex, isLoading, pendingLoads,
                           audio, isPlaying, hasInteracted, timers,
                           selectedGenres, showOnlyAlbums, fetchCount>>]_vars
    /\ [][(error' # error /\ error' # NoError) => LoadFailStep]_vars

\* the genre fetch has failed and the user browses and plays the crate
C25_Witness ==
    /\ mounted /\ ~genresPending /\ genres = <<>>
    /\ View = "crate" /\ currentIndex > 0 /\ isPlaying

\* ------------------------------------------------------- template: controls
\* prev-btn :disabled
PrevDisabled == currentIndex = 0

\* next-btn :disabled tested against the length
NextDisabled_OffByOne == currentIndex = Len(albums)

\* next-btn :disabled
NextDisabled == currentIndex = Len(albums) - 1

\* progress-indicator: {{ currentIndex + 1 }} / {{ albums.length }}
ProgressIndicator == <<currentIndex + 1, Len(albums)>>

\* C26: whenever the crate view is shown, the prev button is disabled exactly
\* when currentIndex = 0, which is exactly when goToPrev would change nothing;
\* the next button is disabled exactly when currentIndex = length - 1, which
\* is exactly when goToNext would change nothing; the progress indicator
\* shows (currentIndex + 1, length), a position within the list.
C26_ControlsMatchIndex ==
    View = "crate" =>
        /\ PrevDisabled <=> currentIndex = 0
        /\ PrevDisabled <=> goToPrev(NavState) = NavState
        /\ NextDisabled <=> currentIndex = Len(albums) - 1
        /\ NextDisabled <=> goToNext(NavState) = NavState
        /\ ProgressIndicator = <<currentIndex + 1, Len(albums)>>
        /\ 1 <= ProgressIndicator[1] /\ ProgressIndicator[1] <= ProgressIndicator[2]

\* the last of two albums is shown: next disabled, prev enabled, "2 / 2"
C26_Witness ==
    /\ View = "crate" /\ ProgressIndicator = <<2, 2>>
    /\ NextDisabled /\ ~PrevDisabled

\* a step in which a deferred play runs
TimerStep == NavShape /\ \E a \in BOOLEAN : TimerFire(a)

\* C27: a deferred play that fires while an album is current binds the
\* preview of the album at currentIndex of that moment and sets Playing,
\* however many deferred plays are pending; and as long as no reload has
\* been started, whenever the state is Playing the bound preview is that of
\* the current album.
C27_TimerPlaysCurrent ==
    /\ [][(TimerStep /\ currentAlbum(albums, currentIndex) # NoAlbum) =>
            /\ isPlaying'
            /\ audio'.src = PreviewUrl(currentAlbum(albums, currentIndex))
            /\ currentIndex' = currentIndex]_vars
    /\ [](fetchCount <= 1 =>
            (isPlaying => audio.src = PreviewUrl(currentAlbum(albums, currentIndex))))

\* next then prev within the delay, no reload: one of the two deferred plays
\* has fired and plays the first album, the other is still pending
C27_Witness ==
    /\ fetchCount = 1 /\ timers >= 1 /\ currentIndex = 0 /\ Len(albums) >= 2
    /\ isPlaying /\ ~audio.paused /\ audio.src = PreviewUrl(albums[1])

\* C28: at most one album fetch is in flight; once the component is mounted,
\* isLoading is true exactly while a fetch is in flight; every step that
\* starts a fetch is taken with no fetch in flight and, the one of onMounted
\* apart, with isLoading false.
C28_OneLoadInFlight ==
    /\ [](Len(pendingLoads) <= 1)
    /\ [](mounted => (isLoading <=> Len(pendingLoads) = 1))
    /\ [][fetchCount' # fetchCount =>
            /\ Len(pendingLoads) = 0
            /\ mounted => ~isLoading
            /\ isLoading' /\ Len(pendingLoads') = 1]_vars

\* a reload is in flight over a crate that an earlier load delivered
C28_Witness ==
    /\ fetchCount = 2 /\ Len(pendingLoads) = 1 /\ isLoading
    /\ Len(albums) > 0 /\ error = NoError

\* a control that calls loadAlbums is rendered: retry-btn in the error view,
\* shuffle-btn (and the release type select) in the crate view
LoadControlAvailable == View = "error" \/ View = "crate"

\* C29: in every state of the mounted component in which no album load is in
\* flight, a control that starts a load is rendered.
C29_CanAlwaysRequest ==
    (mounted /\ pendingLoads = <<>>) => LoadControlAvailable

\* a deferred play is pending that will bind the current album when it fires
RestartPending ==
    timers > 0 /\ audioRef /\ currentAlbum(albums, currentIndex) # NoAlbum

\* C30: after a step in which the user stops playback (click or Space while
\* Playing, or toggleGenre) no deferred play of an earlier navigation is left
\* that restarts playback: the state stays Stopped until the user navigates
\* or plays.
C30_StopIsFinal ==
    [][(StopStep \/ ToggleStep) => ~RestartPending']_vars

\* C32: hasInteracted is false until the first handler has run; it becomes
\* true only in a step that runs playPreview with an audio element and a
\* current album, the step that binds that album's preview and sets Playing;
\* once true it stays true in every step (stop, navigation, filter change,
\* start and completion of a load).
C32_HasInteractedMonotonic ==
    /\ [](fetchCount = 0 => ~hasInteracted)
    /\ [][hasInteracted => hasInteracted']_vars
    /\ [][(hasInteracted' # hasInteracted /\ hasInteracted') =>
            /\ PlayStep
            /\ audioRef /\ currentAlbum(albums, currentIndex) # NoAlbum
            /\ isPlaying'
            /\ audio'.src = PreviewUrl(currentAlbum(albums, currentIndex))]_vars

\* the user has played, stopped, chosen a genre and reloaded: hasInteracted
\* is still set
C32_Witness ==
    /\ hasInteracted /\ ~isPlaying
    /\ fetchCount >= 2 /\ pendingLoads = <<>> /\ Len(selectedGenres) > 0

\* ------------------------------------------------------------------ fairness
\* onMounted runs once the component is set up, and every album fetch that
\* is in flight eventually resolves or rejects.
FairSpec ==
    /\ Spec
    /\ WF_vars(Mount)
    /\ WF_vars(LoadSuccessStep \/ LoadFailStep)

\* C31: the component starts with isLoading true; isLoading is true as long
\* as an album fetch is in flight; the step that completes a fetch, resolved
\* or rejected, sets isLoading to false; and, every fetch eventually
\* resolving or rejecting, whenever isLoading is true it eventually is false.
C31_LoadingEnds ==
    /\ isLoading = TRUE
    /\ [](pendingLoads # <<>> => isLoading)
    /\ [][Len(pendingLoads') < Len(pendingLoads) => ~isLoading']_vars
    /\ (isLoading ~> ~isLoading)

\* the first load has failed: the loading state has ended with the error shown
C31_Witness ==
    /\ mounted /\ fetchCount = 1 /\ pendingLoads = <<>>
    /\ ~isLoading /\ error # NoError /\ albums = <<>>

====
